---- MODULE Spec2Model ----
(***************************************************************************)
(* A model of the Dominion rule engine of src/main.rs: the card catalog,   *)
(* the per-player zones (deck, hand, discard, played, trashed), the        *)
(* supply, and Game::accept_move with the effect resolver and the turn /   *)
(* phase state machine.                                                    *)
(*                                                                         *)
(* Vectors are sequences whose LAST element is the top (Vec::push and      *)
(* Vec::pop work at the end).  Player and hand indices are 0-based as in   *)
(* the source: players is a function on 0..NumPlayers-1, and hand index i  *)
(* is element i+1 of the hand sequence.  A shuffle is a nondeterministic   *)
(* choice among all the orders of the shuffled vector, so the operations   *)
(* that draw are set-valued: they yield the set of all their outcomes.     *)
(***************************************************************************)
EXTENDS Integers, Sequences, FiniteSets, TLC

(***************************************************************************)
(* Bounds of the model.  The source starts every player with 7 Copper and  *)
(* 3 Estate, the treasure piles with 60, 40 and 30 cards and every other   *)
(* pile with 10.  The rules only ever compare these counts with zero and   *)
(* with the number of cards drawn, so the model starts from smaller decks  *)
(* and piles (the treasure piles still the larger ones) to make            *)
(* reshuffles, depleted piles and the end of the game happen within a few  *)
(* turns.  MaxTurns bounds the number of turns a behaviour ends.           *)
(***************************************************************************)
StartCoppers == 5
StartEstates == 0
TreasurePileSize == 2
PileSize == 1
MaxTurns == 3

\* main: Game::initialise_game(2)
NumPlayers == 2
\* Player::new and Player::end_turn: draw(5)
HandSize == 5

PlayerIndices == 0..(NumPlayers - 1)

----------------------------------------------------------------------------
(* Card catalog *)

TreasureNames == {"Copper", "Silver", "Gold"}
VictoryNames == {"Estate", "Duchy", "Province"}
CurseNames == {"Curse"}
ActionNames ==
    {"Cellar", "Chapel", "Moat", "Harbinger", "Merchant", "Vassal", "Village",
     "Workshop", "Bureaucrat", "Gardens", "Militia", "Moneylender", "Poacher",
     "Remodel", "Smithy", "Throne Room", "Bandit", "Council Room", "Festival",
     "Laboratory", "Library", "Market", "Mine", "Sentry", "Witch", "Artisan"}

\* the action cards whose effect is todo!()
UnimplementedActions ==
    {"Cellar", "Chapel", "Harbinger", "Merchant", "Vassal", "Workshop",
     "Bureaucrat", "Militia", "Moneylender", "Poacher", "Remodel",
     "Throne Room", "Bandit", "Library", "Mine", "Sentry", "Artisan"}

CardNames == TreasureNames \cup VictoryNames \cup CurseNames \cup ActionNames

card_type(c) ==
    IF c \in TreasureNames THEN "Treasure"
    ELSE IF c \in VictoryNames THEN "Victory"
    ELSE IF c \in CurseNames THEN "Curse"
    ELSE "Action"

cost(c) ==
    CASE c = "Copper" -> 0
      [] c = "Silver" -> 3
      [] c = "Gold" -> 6
      [] c = "Estate" -> 2
      [] c = "Duchy" -> 5
      [] c = "Province" -> 8
      [] c = "Curse" -> 0
      [] c \in {"Cellar", "Chapel", "Moat"} -> 2
      [] c \in {"Harbinger", "Merchant", "Vassal", "Village", "Workshop"} -> 3
      [] c \in {"Bureaucrat", "Gardens", "Militia", "Moneylender", "Poacher",
                "Remodel", "Smithy", "Throne Room"} -> 4
      [] c \in {"Bandit", "Council Room", "Festival", "Laboratory", "Library",
                "Market", "Mine", "Sentry", "Witch"} -> 5
      [] c = "Artisan" -> 6

\* value with two coins for a Gold
value_GoldAsSilver(c) ==
    CASE c = "Copper" -> 1
      [] c = "Silver" -> 2
      [] c = "Gold" -> 2

value(c) ==
    CASE c = "Copper" -> 1
      [] c = "Silver" -> 2
      [] c = "Gold" -> 3

----------------------------------------------------------------------------
(* Vectors *)

Min(a, b) == IF a < b THEN a ELSE b

\* Vec::remove(i) with a 0-based index
RemoveAt(s, i) == SubSeq(s, 1, i) \o SubSeq(s, i + 2, Len(s))

\* s repeated: n copies of card c
Copies(c, n) == [k \in 1..n |-> c]

\* the cards named in the set names that the vector s holds
CountIn(s, names) == Cardinality({k \in 1..Len(s) : s[k] \in names})

RECURSIVE Shuffles(_)
\* every order slice::shuffle can leave the vector in
Shuffles(s) ==
    IF Len(s) <= 1 THEN {s}
    ELSE UNION { { <<s[k]>> \o t : t \in Shuffles(RemoveAt(s, k - 1)) } :
                 k \in {j \in 1..Len(s) : \A i \in 1..(j - 1) : s[i] # s[j]} }

----------------------------------------------------------------------------
(* Player *)

\* struct Player before its starting deck is pushed
EmptyPlayer(i) ==
    [index |-> i, hand |-> <<>>, deck |-> <<>>, discard |-> <<>>,
     played |-> <<>>, trashed |-> <<>>, actions |-> 1, buys |-> 1, coins |-> 0]

\* the loop of draw: pop up to n cards off the top of the deck into the hand
PopToHand(p, n) ==
    LET k == Min(n, Len(p.deck))
        d == Len(p.deck)
    IN [p EXCEPT !.hand = p.hand \o [j \in 1..k |-> p.deck[d + 1 - j]],
                 !.deck = SubSeq(p.deck, 1, d - k)]

\* prepend_discard_to_deck that forgets to extend the new deck with the old one
prepend_discard_to_deck_DropsDeck(p, sh) == [p EXCEPT !.deck = sh, !.discard = <<>>]

\* the discard (already shuffled into the order sh) goes beneath the deck
prepend_discard_to_deck(p, sh) ==
    [p EXCEPT !.deck = sh \o p.deck, !.discard = <<>>]

\* draw that puts the shuffled discard on top of the deck
draw_DiscardOnTop(p, n) ==
    IF Len(p.deck) < n
    THEN { PopToHand([p EXCEPT !.deck = p.deck \o sh, !.discard = <<>>], n) :
           sh \in Shuffles(p.discard) }
    ELSE { PopToHand(p, n) }

\* draw that never moves the discard beneath the deck
draw_NoReshuffle(p, n) == { PopToHand(p, n) }

\* Player::draw: the set of outcomes, one per order of the shuffled discard
draw(p, n) ==
    IF Len(p.deck) < n
    THEN { PopToHand(prepend_discard_to_deck(p, sh), n) : sh \in Shuffles(p.discard) }
    ELSE { PopToHand(p, n) }

\* get_victory_points that counts the hand only
get_victory_points_HandOnly(p) ==
    CountIn(p.hand, {"Estate"}) + 3 * CountIn(p.hand, {"Duchy"})
    + 6 * CountIn(p.hand, {"Province"})

get_victory_points(p) ==
    LET zones == p.hand \o p.deck \o p.discard
    IN CountIn(zones, {"Estate"}) + 3 * CountIn(zones, {"Duchy"})
       + 6 * CountIn(zones, {"Province"})

has_action_cards_in_hand(p) == \E k \in 1..Len(p.hand) : card_type(p.hand[k]) = "Action"

has_treasure_cards_in_hand(p) == \E k \in 1..Len(p.hand) : card_type(p.hand[k]) = "Treasure"

\* get_starting_game_phase that never answers TreasurePhase
get_starting_game_phase_SkipsTreasure(p) ==
    IF has_action_cards_in_hand(p) THEN "ActionPhase" ELSE "BuyPhase"

get_starting_game_phase(p) ==
    IF has_action_cards_in_hand(p) THEN "ActionPhase"
    ELSE IF has_treasure_cards_in_hand(p) THEN "TreasurePhase"
    ELSE "BuyPhase"

\* add_to_discard that pushes onto the hand
add_to_discard_ToHand(p, c) == [p EXCEPT !.hand = Append(p.hand, c)]

add_to_discard(p, c) == [p EXCEPT !.discard = Append(p.discard, c)]

play_card(p, c) == [p EXCEPT !.played = Append(p.played, c)]

discard_hand(p) == [p EXCEPT !.discard = p.discard \o p.hand, !.hand = <<>>]

\* clear_played that copies played to the discard and does not empty it
clear_played_KeepsPlayed(p) == [p EXCEPT !.discard = p.discard \o p.played]

clear_played(p) == [p EXCEPT !.discard = p.discard \o p.played, !.played = <<>>]

\* Player::end_turn that does not reset the coins
Player_end_turn_KeepsCoins(p) ==
    draw([clear_played(discard_hand(p)) EXCEPT !.actions = 1, !.buys = 1], HandSize)

\* Player::end_turn: the set of outcomes of its draw(5)
Player_end_turn(p) ==
    draw([clear_played(discard_hand(p)) EXCEPT !.actions = 1, !.buys = 1, !.coins = 0],
         HandSize)

\* Player::new: the starting deck in every shuffled order, then draw(5)
Player_new(i) ==
    UNION { draw([EmptyPlayer(i) EXCEPT !.deck = d], HandSize) :
            d \in Shuffles(Copies("Copper", StartCoppers) \o Copies("Estate", StartEstates)) }

----------------------------------------------------------------------------
(* Supply *)

\* Game::initialise_game: the piles of the four maps
InitialSupply ==
    [treasures |-> [c \in {"Copper", "Silver", "Gold"} |-> TreasurePileSize],
     actions |-> [c \in {"Moat", "Village", "Smithy", "Festival", "Market",
                         "Laboratory"} |-> PileSize],
     victories |-> [c \in {"Province", "Duchy", "Estate"} |-> PileSize],
     curses |-> [c \in {"Curse"} |-> PileSize]]

\* take_from_supply_pile that tests "count < 0" instead of "count <= 0"
take_from_supply_pile_TakesAtZero(pile, card_name) ==
    IF card_name \in DOMAIN pile
    THEN IF pile[card_name] < 0
         THEN [pile |-> pile, res |-> "CardSupplyDepleted"]
         ELSE [pile |-> [pile EXCEPT ![card_name] = @ - 1], res |-> "Ok"]
    ELSE [pile |-> pile, res |-> "CardNotFoundInSupply"]

\* the result of one pile map: the map afterwards and Ok or the error
take_from_supply_pile(pile, card_name) ==
    IF card_name \in DOMAIN pile
    THEN IF pile[card_name] <= 0
         THEN [pile |-> pile, res |-> "CardSupplyDepleted"]
         ELSE [pile |-> [pile EXCEPT ![card_name] = @ - 1], res |-> "Ok"]
    ELSE [pile |-> pile, res |-> "CardNotFoundInSupply"]

\* take_card that answers Ok where the pile is depleted
take_card_OkWhenDepleted(sup, c) ==
    LET f == CASE card_type(c) = "Treasure" -> "treasures"
               [] card_type(c) = "Victory" -> "victories"
               [] card_type(c) = "Action" -> "actions"
               [] card_type(c) = "Curse" -> "curses"
        r == take_from_supply_pile(sup[f], c)
    IN [supply |-> [sup EXCEPT ![f] = r.pile],
        res |-> IF r.res = "CardSupplyDepleted" THEN "Ok" ELSE r.res]

take_card(sup, c) ==
    CASE card_type(c) = "Treasure" ->
           LET r == take_from_supply_pile(sup.treasures, c)
           IN [supply |-> [sup EXCEPT !.treasures = r.pile], res |-> r.res]
      [] card_type(c) = "Victory" ->
           LET r == take_from_supply_pile(sup.victories, c)
           IN [supply |-> [sup EXCEPT !.victories = r.pile], res |-> r.res]
      [] card_type(c) = "Action" ->
           LET r == take_from_supply_pile(sup.actions, c)
           IN [supply |-> [sup EXCEPT !.actions = r.pile], res |-> r.res]
      [] card_type(c) = "Curse" ->
           LET r == take_from_supply_pile(sup.curses, c)
           IN [supply |-> [sup EXCEPT !.curses = r.pile], res |-> r.res]

EmptyPiles(pile) == Cardinality({c \in DOMAIN pile : pile[c] = 0})

num_empty_supply_piles(sup) ==
    EmptyPiles(sup.treasures) + EmptyPiles(sup.victories)
    + EmptyPiles(sup.actions) + EmptyPiles(sup.curses)

\* check_game_over without the test of the Province pile
check_game_over_ThreePilesOnly(sup) == num_empty_supply_piles(sup) >= 3

check_game_over(sup) ==
    sup.victories["Province"] = 0 \/ num_empty_supply_piles(sup) >= 3

----------------------------------------------------------------------------
(* Game *)

\* self.players.len()
num_players(g) == Cardinality(DOMAIN g.players)

\* Option<usize>: None is the empty sequence, Some(i) is <<i>>
None == <<>>
Some(i) == <<i>>

current_player(g) == g.players[g.curr_player_index]

\* max_by_key that returns the first of several maxima
max_by_key_FirstMax(ps) ==
    CHOOSE i \in DOMAIN ps :
        /\ \A j \in DOMAIN ps : get_victory_points(ps[j]) <= get_victory_points(ps[i])
        /\ \A j \in DOMAIN ps : j < i => get_victory_points(ps[j]) < get_victory_points(ps[i])

\* Iterator::max_by_key over the players in order: of several maxima, the last
max_by_key(ps) ==
    CHOOSE i \in DOMAIN ps :
        /\ \A j \in DOMAIN ps : get_victory_points(ps[j]) <= get_victory_points(ps[i])
        /\ \A j \in DOMAIN ps : j > i => get_victory_points(ps[j]) < get_victory_points(ps[i])

\* Game::end_turn that leaves the turn with the same player
Game_end_turn_SamePlayer(g) ==
    { LET g1 == [g EXCEPT !.players[g.curr_player_index] = p]
          g2 == [g1 EXCEPT !.game_phase = get_starting_game_phase(current_player(g1))]
      IN IF check_game_over(g2.supply)
         THEN [g2 EXCEPT !.winner = Some(g2.players[max_by_key(g2.players)].index)]
         ELSE g2
      : p \in Player_end_turn(current_player(g)) }

\* Game::end_turn: one outcome per outcome of the current player's end_turn
Game_end_turn(g) ==
    { LET next == (g.curr_player_index + 1) % num_players(g)
          g1 == [g EXCEPT !.players[g.curr_player_index] = p,
                          !.curr_player_index = next]
          g2 == [g1 EXCEPT !.game_phase = get_starting_game_phase(g1.players[next])]
      IN IF check_game_over(g2.supply)
         THEN [g2 EXCEPT !.winner = Some(g2.players[max_by_key(g2.players)].index)]
         ELSE g2
      : p \in Player_end_turn(current_player(g)) }

\* action_to_treasure_phase that answers Ok and leaves the phase as it is
action_to_treasure_phase_Stays(g) ==
    IF g.game_phase = "ActionPhase"
    THEN [g |-> g, res |-> "Ok"]
    ELSE [g |-> g, res |-> "InvalidMove"]

\* Result of a phase transition: the game afterwards and Ok or the error
action_to_treasure_phase(g) ==
    IF g.game_phase = "ActionPhase"
    THEN [g |-> [g EXCEPT !.game_phase = "TreasurePhase"], res |-> "Ok"]
    ELSE [g |-> g, res |-> "InvalidMove"]

\* treasure_to_buy_phase that goes back to ActionPhase
treasure_to_buy_phase_BackToAction(g) ==
    IF g.game_phase = "TreasurePhase"
    THEN [g |-> [g EXCEPT !.game_phase = "ActionPhase"], res |-> "Ok"]
    ELSE [g |-> g, res |-> "InvalidMove"]

treasure_to_buy_phase(g) ==
    IF g.game_phase = "TreasurePhase"
    THEN [g |-> [g EXCEPT !.game_phase = "BuyPhase"], res |-> "Ok"]
    ELSE [g |-> g, res |-> "InvalidMove"]

\* the game with its current player replaced by p
WithCurrent(g, p) == [g EXCEPT !.players[g.curr_player_index] = p]

\* SelfEffect that adds no buys
SelfEffect_NoBuys(g, da, db, n) ==
    { WithCurrent(g, q) :
      q \in draw([current_player(g) EXCEPT !.actions = @ + da], n) }

\* the current player gets da more actions and db more buys, then draws n cards
SelfEffect(g, da, db, n) ==
    { WithCurrent(g, q) :
      q \in draw([current_player(g) EXCEPT !.actions = @ + da, !.buys = @ + db], n) }

RECURSIVE OthersDraw(_, _)
\* Council Room: the players from index i on, except the current one, draw a card
OthersDraw(g, i) ==
    IF i >= num_players(g) THEN {g}
    ELSE IF g.players[i].index # g.curr_player_index
         THEN UNION { OthersDraw([g EXCEPT !.players[i] = q], i + 1) :
                      q \in draw(g.players[i], 1) }
         ELSE OthersDraw(g, i + 1)

RECURSIVE CurseLoop_ActorToo(_, _, _)
\* the Witch loop that starts at the current player
CurseLoop_ActorToo(g, cursed_player_index, left) ==
    IF left = 0 THEN g
    ELSE LET i == (cursed_player_index + num_players(g) - 1) % num_players(g)
             g1 == IF g.supply.curses["Curse"] > 0
                   THEN [g EXCEPT
                           !.players[i] = add_to_discard(@, "Curse"),
                           !.supply.curses["Curse"] = @ - 1]
                   ELSE g
         IN CurseLoop_ActorToo(g1, (cursed_player_index + 1) % num_players(g), left - 1)

RECURSIVE CurseLoop(_, _, _)
\* Witch: the loop over the other players, left rounds from cursed_player_index on
CurseLoop(g, cursed_player_index, left) ==
    IF left = 0 THEN g
    ELSE LET g1 == IF g.supply.curses["Curse"] > 0
                   THEN [g EXCEPT
                           !.players[cursed_player_index] = add_to_discard(@, "Curse"),
                           !.supply.curses["Curse"] = @ - 1]
                   ELSE g
         IN CurseLoop(g1, (cursed_player_index + 1) % num_players(g), left - 1)

\* Game::handle_action: the set of [g, res]; todo!() aborts the process ("Panic")
handle_action(g, action) ==
    CASE action = "Moat" -> { [g |-> h, res |-> "Ok"] : h \in SelfEffect(g, 0, 0, 2) }
      [] action = "Village" -> { [g |-> h, res |-> "Ok"] : h \in SelfEffect(g, 2, 0, 1) }
      [] action = "Gardens" -> { [g |-> g, res |-> "InvalidMove"] }
      [] action = "Smithy" -> { [g |-> h, res |-> "Ok"] : h \in SelfEffect(g, 0, 0, 3) }
      [] action = "Council Room" ->
           { [g |-> h, res |-> "Ok"] :
             h \in UNION { OthersDraw(h1, 0) : h1 \in SelfEffect(g, 0, 1, 4) } }
      [] action = "Festival" -> { [g |-> h, res |-> "Ok"] : h \in SelfEffect(g, 2, 1, 0) }
      [] action = "Laboratory" -> { [g |-> h, res |-> "Ok"] : h \in SelfEffect(g, 1, 0, 2) }
      [] action = "Market" -> { [g |-> h, res |-> "Ok"] : h \in SelfEffect(g, 1, 1, 1) }
      [] action = "Witch" ->
           { [g |-> CurseLoop(h, (h.curr_player_index + 1) % num_players(h), num_players(h) - 1),
              res |-> "Ok"] : h \in SelfEffect(g, 0, 0, 2) }
      [] action \in UnimplementedActions -> { [g |-> g, res |-> "Panic"] }

----------------------------------------------------------------------------
(* Game::accept_move *)

\* an outcome of accept_move: the game afterwards, Ok or the error kind, whether
\* the move went through Game::end_turn, and what the error carries
Out(g, res, ended) == [g |-> g, res |-> res, ended |-> ended, detail |-> <<>>]

\* (ActionPhase, PlayCard { card_index })
PlayInActionPhase(g, card_index) ==
    LET cur == current_player(g)
    IN IF card_index >= Len(cur.hand) THEN { Out(g, "CardNotFound", FALSE) }
       ELSE LET c == cur.hand[card_index + 1]
            IN CASE card_type(c) = "Treasure" -> { Out(g, "InvalidMove", FALSE) }
                 [] card_type(c) = "Action" ->
                      LET g1 == WithCurrent(g, [cur EXCEPT !.hand = RemoveAt(@, card_index)])
                      IN IF current_player(g1).actions = 0
                         THEN { Out(g1, "InvalidMove", FALSE) }
                         ELSE LET g2 == WithCurrent(g1,
                                          play_card([current_player(g1) EXCEPT
                                                       !.actions = @ - 1], c))
                              IN { IF r.res # "Ok" THEN Out(r.g, r.res, FALSE)
                                   ELSE IF \/ current_player(r.g).actions = 0
                                           \/ ~has_action_cards_in_hand(current_player(r.g))
                                        THEN LET t == action_to_treasure_phase(r.g)
                                             IN Out(t.g, t.res, FALSE)
                                        ELSE Out(r.g, "Ok", FALSE)
                                   : r \in handle_action(g2, c) }
                 [] card_type(c) = "Victory" -> { Out(g, "InvalidMove", FALSE) }
                 [] card_type(c) = "Curse" -> { Out(g, "InvalidMove", FALSE) }

\* (TreasurePhase, PlayCard { card_index })
PlayInTreasurePhase(g, card_index) ==
    LET cur == current_player(g)
    IN IF card_index >= Len(cur.hand) THEN { Out(g, "CardNotFound", FALSE) }
       ELSE LET c == cur.hand[card_index + 1]
            IN CASE card_type(c) = "Treasure" ->
                      LET g1 == WithCurrent(g,
                                  play_card([cur EXCEPT !.hand = RemoveAt(@, card_index),
                                                        !.coins = @ + value(c)], c))
                      IN IF ~has_treasure_cards_in_hand(current_player(g1))
                         THEN LET t == treasure_to_buy_phase(g1)
                              IN { Out(t.g, t.res, FALSE) }
                         ELSE { Out(g1, "Ok", FALSE) }
                 [] card_type(c) = "Action" -> { Out(g, "InvalidMove", FALSE) }
                 [] card_type(c) = "Victory" -> { Out(g, "InvalidMove", FALSE) }
                 [] card_type(c) = "Curse" -> { Out(g, "InvalidMove", FALSE) }

\* the BuyCard arm that tests the pile before the coins
BuyInBuyPhase_SupplyFirst(g, card) ==
    LET cur == current_player(g)
        t == take_card(g.supply, card)
    IN IF t.res # "Ok" THEN { Out(g, t.res, FALSE) }
       ELSE IF cur.coins < cost(card)
       THEN { [Out(g, "NotEnoughMoney", FALSE) EXCEPT
                 !.detail = [required |-> cost(card), available |-> cur.coins]] }
       ELSE LET g3 == WithCurrent([g EXCEPT !.supply = t.supply],
                        add_to_discard([cur EXCEPT !.coins = @ - cost(card),
                                                   !.buys = @ - 1], card))
            IN IF current_player(g3).buys = 0
               THEN { Out(h, "Ok", TRUE) : h \in Game_end_turn(g3) }
               ELSE { Out(g3, "Ok", FALSE) }

\* (BuyPhase, BuyCard { card }).  buys is a u32: "buys -= 1" at 0 aborts with an
\* arithmetic overflow ("Panic") in a build with overflow checks, as cargo's
\* default build is; without them it wraps to 2^32 - 1.
BuyInBuyPhase(g, card) ==
    LET cur == current_player(g)
    IN IF cur.coins < cost(card)
       THEN { [Out(g, "NotEnoughMoney", FALSE) EXCEPT
                 !.detail = [required |-> cost(card), available |-> cur.coins]] }
       ELSE LET g1 == WithCurrent(g, [cur EXCEPT !.coins = @ - cost(card)])
                t == take_card(g1.supply, card)
            IN IF t.res # "Ok" THEN { Out(g1, t.res, FALSE) }
               ELSE LET g2 == [g1 EXCEPT !.supply = t.supply]
                        g3 == WithCurrent(g2,
                                add_to_discard([current_player(g2) EXCEPT
                                                  !.buys = @ - 1], card))
                    IN IF current_player(g2).buys = 0
                       THEN { Out(g2, "Panic", FALSE) }
                       ELSE IF current_player(g3).buys = 0
                            THEN { Out(h, "Ok", TRUE) : h \in Game_end_turn(g3) }
                            ELSE { Out(g3, "Ok", FALSE) }

\* match_move with the BuyCard arm matching in every phase
match_move_BuyInAnyPhase(g, game_move) ==
    CASE g.game_phase = "ActionPhase" /\ game_move.kind = "PlayCard" ->
           PlayInActionPhase(g, game_move.card_index)
      [] g.game_phase = "ActionPhase" /\ game_move.kind = "EndActions" ->
           LET t == action_to_treasure_phase(
                      WithCurrent(g, [current_player(g) EXCEPT !.actions = 0]))
           IN { Out(t.g, t.res, FALSE) }
      [] g.game_phase = "TreasurePhase" /\ game_move.kind = "PlayCard" ->
           PlayInTreasurePhase(g, game_move.card_index)
      [] g.game_phase = "TreasurePhase" /\ game_move.kind = "EndTreasures" ->
           LET t == treasure_to_buy_phase(g)
           IN { Out(t.g, t.res, FALSE) }
      [] game_move.kind = "BuyCard" -> BuyInBuyPhase(g, game_move.card)
      [] game_move.kind = "EndTurn" ->
           { Out(h, "Ok", TRUE) : h \in Game_end_turn(g) }
      [] OTHER -> { Out(g, "InvalidMove", FALSE) }

\* the match of accept_move on (game_phase, game_move), for the current player
match_move(g, game_move) ==
    CASE g.game_phase = "ActionPhase" /\ game_move.kind = "PlayCard" ->
           PlayInActionPhase(g, game_move.card_index)
      [] g.game_phase = "ActionPhase" /\ game_move.kind = "EndActions" ->
           LET t == action_to_treasure_phase(
                      WithCurrent(g, [current_player(g) EXCEPT !.actions = 0]))
           IN { Out(t.g, t.res, FALSE) }
      [] g.game_phase = "TreasurePhase" /\ game_move.kind = "PlayCard" ->
           PlayInTreasurePhase(g, game_move.card_index)
      [] g.game_phase = "TreasurePhase" /\ game_move.kind = "EndTreasures" ->
           LET t == treasure_to_buy_phase(g)
           IN { Out(t.g, t.res, FALSE) }
      [] g.game_phase = "BuyPhase" /\ game_move.kind = "BuyCard" ->
           BuyInBuyPhase(g, game_move.card)
      [] game_move.kind = "EndTurn" ->
           { Out(h, "Ok", TRUE) : h \in Game_end_turn(g) }
      [] OTHER -> { Out(g, "InvalidMove", FALSE) }

\* accept_move without its check of player_index
accept_move_AnyPlayer(g, player_index, game_move) == match_move(g, game_move)

\* Game::accept_move: the set of its outcomes
accept_move(g, player_index, game_move) ==
    IF player_index # g.curr_player_index THEN { Out(g, "InvalidMove", FALSE) }
    ELSE match_move(g, game_move)

----------------------------------------------------------------------------
(* The game as a state machine: one action per kind of GameMove *)

\* players, supply, curr_player_index, game_phase, winner: the fields of Game.
\* last: the latest accept_move call (who submitted which move, its result and
\* whether it went through Game::end_turn); gained: per player, the number of
\* cards acquired so far; turns: the number of turns ended so far.
VARIABLES players, supply, curr_player_index, game_phase, winner, last, gained, turns

vars == <<players, supply, curr_player_index, game_phase, winner, last, gained, turns>>

\* the fields of Game
gameVars == <<players, supply, curr_player_index, game_phase, winner>>

\* struct Game in the current state
Game ==
    [players |-> players, supply |-> supply, curr_player_index |-> curr_player_index,
     game_phase |-> game_phase, winner |-> winner]

\* the cards the BuyCard moves of the behaviours name: a curse, a victory card, a
\* kingdom card of the supply, and a card that card_name_to_card knows but the
\* supply does not hold (Cellar)
BuyChoices == {"Curse", "Estate", "Festival", "Cellar"}
DiscardChoices == {"Copper"}

\* the GameMove values: every hand index and the first one out of range
PlayCardMoves(g) ==
    { [kind |-> "PlayCard", card_index |-> i] : i \in 0..Len(current_player(g).hand) }
BuyCardMoves(cards) == { [kind |-> "BuyCard", card |-> c] : c \in cards }
DiscardCardMoves(cards) == { [kind |-> "DiscardCard", card |-> c] : c \in cards }
EndActionsMove == [kind |-> "EndActions"]
EndTreasuresMove == [kind |-> "EndTreasures"]
EndTurnMove == [kind |-> "EndTurn"]

\* the cards player i acquires when the move game_move of the current player of g
\* is accepted: the card bought, or a Curse from a Witch while curses are left
Acquires(g, game_move, i) ==
    LET cur == g.curr_player_index
        after == (i - cur - 1) % NumPlayers
    IN IF game_move.kind = "BuyCard" THEN (IF i = cur THEN 1 ELSE 0)
       ELSE IF /\ game_move.kind = "PlayCard"
               /\ game_move.card_index < Len(g.players[cur].hand)
               /\ g.players[cur].hand[game_move.card_index + 1] = "Witch"
            THEN (IF i # cur /\ after < g.supply.curses["Curse"] THEN 1 ELSE 0)
            ELSE 0

\* Game::initialise_game
Init ==
    /\ players \in { ps \in [PlayerIndices -> UNION { Player_new(i) : i \in PlayerIndices }] :
                     \A i \in PlayerIndices : ps[i].index = i }
    /\ supply = InitialSupply
    /\ curr_player_index \in PlayerIndices
    /\ game_phase = get_starting_game_phase(players[curr_player_index])
    /\ winner = None
    /\ last = [player_index |-> curr_player_index, move |-> [kind |-> "None"],
               res |-> "Ok", ended |-> FALSE]
    /\ gained = [i \in PlayerIndices |-> 0]
    /\ turns = 0

\* one call accept_move(player_index, game_move), with any of its outcomes; after
\* a todo!() has aborted the process there are no more calls
Submit(player_index, game_move) ==
    /\ last.res # "Panic"
    /\ \E o \in accept_move(Game, player_index, game_move) :
         /\ players' = o.g.players
         /\ supply' = o.g.supply
         /\ curr_player_index' = o.g.curr_player_index
         /\ game_phase' = o.g.game_phase
         /\ winner' = o.g.winner
         /\ last' = [player_index |-> player_index, move |-> game_move,
                     res |-> o.res, ended |-> o.ended]
         /\ gained' = [i \in PlayerIndices |->
                         gained[i] + IF o.res = "Ok" THEN Acquires(Game, game_move, i) ELSE 0]
         /\ turns' = IF o.ended THEN turns + 1 ELSE turns

PlayCard ==
    /\ turns < MaxTurns
    /\ \E pi \in PlayerIndices, m \in PlayCardMoves(Game) : Submit(pi, m)

BuyCard ==
    /\ turns < MaxTurns
    /\ \E pi \in PlayerIndices, m \in BuyCardMoves(BuyChoices) : Submit(pi, m)

DiscardCard ==
    /\ turns < MaxTurns
    /\ \E pi \in PlayerIndices, m \in DiscardCardMoves(DiscardChoices) : Submit(pi, m)

EndActions ==
    /\ turns < MaxTurns
    /\ \E pi \in PlayerIndices : Submit(pi, EndActionsMove)

EndTreasures ==
    /\ turns < MaxTurns
    /\ \E pi \in PlayerIndices : Submit(pi, EndTreasuresMove)

EndTurn ==
    /\ turns < MaxTurns
    /\ \E pi \in PlayerIndices : Submit(pi, EndTurnMove)

Next == PlayCard \/ BuyCard \/ DiscardCard \/ EndActions \/ EndTreasures \/ EndTurn

Spec == Init /\ [][Next]_vars

----------------------------------------------------------------------------
(* Player::draw on its own: one call on a player with any deck, discard and hand *)

MaxDeck == 3
MaxDiscard == 3
MaxHand == 1

\* the vectors over cards of at most n cards
Vectors(cards, n) == UNION { [1..k -> cards] : k \in 0..n }

\* player 0 holds any deck, discard and hand of Coppers and Estates
InitDraw ==
    /\ \E h \in Vectors({"Copper", "Estate"}, MaxHand),
          d \in Vectors({"Copper", "Estate"}, MaxDeck),
          x \in Vectors({"Copper", "Estate"}, MaxDiscard) :
          players = [i \in PlayerIndices |->
                       IF i = 0 THEN [EmptyPlayer(0) EXCEPT !.hand = h, !.deck = d,
                                                            !.discard = x]
                       ELSE EmptyPlayer(i)]
    /\ supply = InitialSupply
    /\ curr_player_index = 0
    /\ game_phase = "ActionPhase"
    /\ winner = None
    /\ last = [player_index |-> 0, move |-> [kind |-> "None"], res |-> "Ok", ended |-> FALSE]
    /\ gained = [i \in PlayerIndices |-> 0]
    /\ turns = 0

\* one call players[0].draw(n); last keeps n, the lengths before the call and the
\* player before the call
Draw ==
    /\ turns = 0
    /\ \E n \in 0..HandSize : \E q \in draw(players[0], n) :
         /\ players' = [players EXCEPT ![0] = q]
         /\ last' = [player_index |-> 0,
                     move |-> [kind |-> "Draw", n |-> n, hand |-> Len(players[0].hand),
                               deck |-> Len(players[0].deck),
                               discard |-> Len(players[0].discard),
                               before |-> players[0]],
                     res |-> "Ok", ended |-> FALSE]
         /\ turns' = 1
    /\ UNCHANGED <<supply, curr_player_index, game_phase, winner, gained>>

NextDraw == Draw

SpecDraw == InitDraw /\ [][NextDraw]_vars

----------------------------------------------------------------------------
(* New games, and games after a scripted opening that pays for a Province *)

\* Game::initialise_game as a set of games
InitialGames ==
    { [players |-> ps, supply |-> InitialSupply, curr_player_index |-> c,
       game_phase |-> get_starting_game_phase(ps[c]), winner |-> None] :
      ps \in { qs \in [PlayerIndices -> UNION { Player_new(i) : i \in PlayerIndices }] :
               \A i \in PlayerIndices : qs[i].index = i },
      c \in PlayerIndices }

RECURSIVE RunScript(_, _)
\* the games after the current player of each game has submitted the moves of
\* script in turn and accept_move has answered Ok to each of them
RunScript(gs, script) ==
    IF script = <<>> THEN gs
    ELSE RunScript({ o.g : o \in { x \in UNION { accept_move(g, g.curr_player_index,
                                                             Head(script)) : g \in gs } :
                                     x.res = "Ok" } },
                   Tail(script))

\* the current player plays the first card of the hand, once per card of a full hand
PlayHand == [k \in 1..HandSize |-> [kind |-> "PlayCard", card_index |-> 0]]

\* turn 1: the hand is played and a Silver bought; turn 2 is ended at once;
\* turn 3: the hand is played and a Gold bought; turn 4 is ended at once;
\* turn 5: the hand is played
Opening ==
    PlayHand \o << [kind |-> "BuyCard", card |-> "Silver"], EndTurnMove >>
    \o PlayHand \o << [kind |-> "BuyCard", card |-> "Gold"], EndTurnMove >>
    \o PlayHand

\* a game after Opening: the player who bought the Silver and the Gold is in
\* BuyPhase, and this turn is the last one played
InitLate ==
    /\ \E g \in RunScript(InitialGames, Opening) :
          /\ players = g.players
          /\ supply = g.supply
          /\ curr_player_index = g.curr_player_index
          /\ game_phase = g.game_phase
          /\ winner = g.winner
    /\ last = [player_index |-> curr_player_index,
               move |-> [kind |-> "PlayCard", card_index |-> 0],
               res |-> "Ok", ended |-> FALSE]
    /\ gained = [i \in PlayerIndices |-> IF i = curr_player_index THEN 2 ELSE 0]
    /\ turns = MaxTurns - 1

\* turn 1: a Curse is bought with no coins; turn 2: two cards are played and an
\* Estate bought; turn 3: the hand, which holds no Curse, is played
OpeningPiles ==
    << EndTreasuresMove, [kind |-> "BuyCard", card |-> "Curse"] >>
    \o [k \in 1..2 |-> [kind |-> "PlayCard", card_index |-> 0]]
    \o << EndTreasuresMove, [kind |-> "BuyCard", card |-> "Estate"] >>
    \o PlayHand

\* a game after OpeningPiles: two piles are at zero, the current player is in
\* BuyPhase, and this turn is the last one played
InitPiles ==
    /\ \E g \in RunScript(InitialGames, OpeningPiles) :
          /\ players = g.players
          /\ supply = g.supply
          /\ curr_player_index = g.curr_player_index
          /\ game_phase = g.game_phase
          /\ winner = g.winner
    /\ last = [player_index |-> curr_player_index,
               move |-> [kind |-> "PlayCard", card_index |-> 0],
               res |-> "Ok", ended |-> FALSE]
    /\ gained = [i \in PlayerIndices |-> 1]
    /\ turns = MaxTurns - 1

\* the BuyCard moves for the cards a Silver and a Gold pay for
BuyProvince ==
    /\ turns < MaxTurns
    /\ \E pi \in PlayerIndices, m \in BuyCardMoves({"Province"}) : Submit(pi, m)

NextLate == Next \/ BuyProvince

SpecLate == (InitLate \/ InitPiles) /\ [][NextLate]_vars

----------------------------------------------------------------------------
(* Games after a scripted opening that ends the game, or is one buy short of it *)

\* turn 1: two cards are played and the Estate bought; turn 2: the Curse is
\* bought with no coins; turn 3: the hand, which holds no Estate, is played and
\* the Festival bought, which leaves three piles at zero
OpeningOver ==
    [k \in 1..2 |-> [kind |-> "PlayCard", card_index |-> 0]]
    \o << EndTreasuresMove, [kind |-> "BuyCard", card |-> "Estate"],
          EndTreasuresMove, [kind |-> "BuyCard", card |-> "Curse"] >>
    \o PlayHand \o << [kind |-> "BuyCard", card |-> "Festival"] >>

\* a game after OpeningOver: the winner is recorded, the other player starts a
\* turn, and this turn is the last one played
InitOver ==
    /\ \E g \in RunScript(InitialGames, OpeningOver) :
          /\ players = g.players
          /\ supply = g.supply
          /\ curr_player_index = g.curr_player_index
          /\ game_phase = g.game_phase
          /\ winner = g.winner
    /\ last = [player_index |-> (curr_player_index + NumPlayers - 1) % NumPlayers,
               move |-> [kind |-> "BuyCard", card |-> "Festival"],
               res |-> "Ok", ended |-> TRUE]
    /\ gained = [i \in PlayerIndices |-> IF i = curr_player_index THEN 1 ELSE 2]
    /\ turns = MaxTurns - 1

\* turn 1: the Curse is bought with no coins; turn 2: two cards are played and
\* the Moat bought; turn 3: the hand, which holds no Curse, is played
OpeningTie ==
    << EndTreasuresMove, [kind |-> "BuyCard", card |-> "Curse"] >>
    \o [k \in 1..2 |-> [kind |-> "PlayCard", card_index |-> 0]]
    \o << EndTreasuresMove, [kind |-> "BuyCard", card |-> "Moat"] >>
    \o PlayHand

\* a game after OpeningTie: two piles are at zero, no player holds a victory
\* card, the current player is in BuyPhase, and this turn is the last one played
InitTie ==
    /\ \E g \in RunScript(InitialGames, OpeningTie) :
          /\ players = g.players
          /\ supply = g.supply
          /\ curr_player_index = g.curr_player_index
          /\ game_phase = g.game_phase
          /\ winner = g.winner
    /\ last = [player_index |-> curr_player_index,
               move |-> [kind |-> "PlayCard", card_index |-> 0],
               res |-> "Ok", ended |-> FALSE]
    /\ gained = [i \in PlayerIndices |-> 1]
    /\ turns = MaxTurns - 1

\* the BuyCard moves for a Duchy
BuyDuchy ==
    /\ turns < MaxTurns
    /\ \E pi \in PlayerIndices, m \in BuyCardMoves({"Duchy"}) : Submit(pi, m)

NextOver == Next \/ BuyDuchy

SpecOver == (InitOver \/ InitTie) /\ [][NextOver]_vars

----------------------------------------------------------------------------
(* Game::handle_action on its own: calls on a new game with any Action *)

MaxCalls == 2

\* one call handle_action(action) on the game as it is, for any Action value;
\* turns counts the calls, and a todo!() ends the process
HandleAction ==
    /\ turns < MaxCalls
    /\ last.res # "Panic"
    /\ \E action \in ActionNames : \E o \in handle_action(Game, action) :
         /\ players' = o.g.players
         /\ supply' = o.g.supply
         /\ curr_player_index' = o.g.curr_player_index
         /\ game_phase' = o.g.game_phase
         /\ winner' = o.g.winner
         /\ last' = [player_index |-> curr_player_index,
                     move |-> [kind |-> "handle_action", action |-> action],
                     res |-> o.res, ended |-> FALSE]
         /\ gained' = [i \in DOMAIN players |->
                         gained[i] + Len(o.g.players[i].discard) + Len(o.g.players[i].deck)
                                   + Len(o.g.players[i].hand) - Len(players[i].discard)
                                   - Len(players[i].deck) - Len(players[i].hand)]
         /\ turns' = turns + 1

NextAction == HandleAction

SpecAction == Init /\ [][NextAction]_vars

----------------------------------------------------------------------------
(* Games at the start of a later turn: a hand of kingdom cards and no treasure,
   and a hand that holds a Silver and a Gold *)

\* the games of gs in which the current player's hand holds n treasure cards
WithTreasures(gs, n) ==
    { g \in gs : CountIn(current_player(g).hand, TreasureNames) = n }

\* the moves of a turn that plays the first card of the hand plays times and buys
\* card, and of the other player's turn, which is ended at once
BuyingTurn(plays, card) ==
    [k \in 1..plays |-> [kind |-> "PlayCard", card_index |-> 0]]
    \o << [kind |-> "BuyCard", card |-> card], EndTurnMove >>

\* the games at the start of turn 11 of the player who bought an Estate, first, a
\* Duchy, the Curse and second on turns 1, 3, 5, 7 and 9, whose hand holds these
\* five cards; the other player ended each turn at once.  Turn 3 plays four
\* Coppers of a hand that ends with the Estate; the hands of turns 5 and 9 are
\* five Coppers; the hand of turn 7 holds first, so that turn starts in
\* ActionPhase and buys the Curse with no coins
HandGames(first, second) ==
    LET t1 == RunScript(InitialGames, BuyingTurn(HandSize, "Estate"))
        t3 == RunScript(t1, BuyingTurn(HandSize - 1, first))
        t5 == RunScript(WithTreasures(t3, HandSize), BuyingTurn(HandSize, "Duchy"))
        t7 == RunScript(WithTreasures(t5, 2),
                        << EndActionsMove, EndTreasuresMove,
                           [kind |-> "BuyCard", card |-> "Curse"], EndTurnMove >>)
        t9 == RunScript(WithTreasures(t7, HandSize), BuyingTurn(HandSize, second))
    IN WithTreasures(t9, 0)

\* the kingdom cards bought on turn 3 (for at most four coins) and on turn 9
FirstChoices == {"Moat", "Village", "Smithy"}
SecondChoices == {"Festival", "Laboratory", "Market"}

\* a game of HandGames: the current player is in ActionPhase with two kingdom
\* cards, the Estate, the Duchy and the Curse in hand and five Coppers in the deck
InitHands ==
    /\ \E first \in FirstChoices, second \in SecondChoices :
          \E g \in HandGames(first, second) :
             /\ players = g.players
             /\ supply = g.supply
             /\ curr_player_index = g.curr_player_index
             /\ game_phase = g.game_phase
             /\ winner = g.winner
    /\ last = [player_index |-> (curr_player_index + NumPlayers - 1) % NumPlayers,
               move |-> EndTurnMove, res |-> "Ok", ended |-> TRUE]
    /\ gained = [i \in PlayerIndices |-> IF i = curr_player_index THEN HandSize ELSE 0]
    /\ turns = MaxTurns - 1

\* the games at the start of turn 5 of the player who bought a Silver on turn 1
\* and a Gold on turn 3, whose hand holds both
RichGames ==
    { g \in RunScript(InitialGames,
                      BuyingTurn(HandSize, "Silver") \o BuyingTurn(HandSize, "Gold")) :
      /\ CountIn(current_player(g).hand, {"Silver"}) = 1
      /\ CountIn(current_player(g).hand, {"Gold"}) = 1 }

\* a game of RichGames: the current player is in TreasurePhase
InitRich ==
    /\ \E g \in RichGames :
          /\ players = g.players
          /\ supply = g.supply
          /\ curr_player_index = g.curr_player_index
          /\ game_phase = g.game_phase
          /\ winner = g.winner
    /\ last = [player_index |-> (curr_player_index + NumPlayers - 1) % NumPlayers,
               move |-> EndTurnMove, res |-> "Ok", ended |-> TRUE]
    /\ gained = [i \in PlayerIndices |-> IF i = curr_player_index THEN 2 ELSE 0]
    /\ turns = MaxTurns - 1

\* the moves of the action and treasure phases of this turn
NextHands == PlayCard \/ EndActions \/ EndTreasures

SpecHands == (InitHands \/ InitRich) /\ [][NextHands]_vars

----------------------------------------------------------------------------
(* Game::handle_action on a new game of three players *)

WitchPlayers == 3

\* Game::initialise_game(WitchPlayers)
InitWitch ==
    /\ players \in { ps \in [0..(WitchPlayers - 1) ->
                               UNION { Player_new(i) : i \in 0..(WitchPlayers - 1) }] :
                     \A i \in 0..(WitchPlayers - 1) : ps[i].index = i }
    /\ supply = InitialSupply
    /\ curr_player_index \in 0..(WitchPlayers - 1)
    /\ game_phase = get_starting_game_phase(players[curr_player_index])
    /\ winner = None
    /\ last = [player_index |-> curr_player_index, move |-> [kind |-> "None"],
               res |-> "Ok", ended |-> FALSE]
    /\ gained = [i \in 0..(WitchPlayers - 1) |-> 0]
    /\ turns = 0

SpecWitch == InitWitch /\ [][NextAction]_vars

----------------------------------------------------------------------------
(* Player::get_victory_points on its own: one call on a player with any cards in
   hand, deck, discard and played *)

MaxZone == 1

\* the cards of the zones: a treasure and the three victory cards with points
PointCards == {"Copper", "Estate", "Duchy", "Province"}

\* player 0 holds any hand, deck, discard and played of at most MaxZone cards each
InitPoints ==
    /\ \E h \in Vectors(PointCards, MaxZone), d \in Vectors(PointCards, MaxZone),
          x \in Vectors(PointCards, MaxZone), y \in Vectors(PointCards, MaxZone) :
          players = [i \in PlayerIndices |->
                       IF i = 0 THEN [EmptyPlayer(0) EXCEPT !.hand = h, !.deck = d,
                                                            !.discard = x, !.played = y]
                       ELSE EmptyPlayer(i)]
    /\ supply = InitialSupply
    /\ curr_player_index = 0
    /\ game_phase = "ActionPhase"
    /\ winner = None
    /\ last = [player_index |-> 0, move |-> [kind |-> "None"], res |-> "Ok", ended |-> FALSE]
    /\ gained = [i \in PlayerIndices |-> 0]
    /\ turns = 0

\* one call players[0].get_victory_points(); last keeps the value returned
GetVictoryPoints ==
    /\ turns = 0
    /\ last' = [player_index |-> 0,
                move |-> [kind |-> "get_victory_points",
                          points |-> get_victory_points(players[0])],
                res |-> "Ok", ended |-> FALSE]
    /\ turns' = 1
    /\ UNCHANGED <<players, supply, curr_player_index, game_phase, winner, gained>>

NextPoints == GetVictoryPoints

SpecPoints == InitPoints /\ [][NextPoints]_vars

----------------------------------------------------------------------------
(* Vocabulary of the claims *)

\* every GameMove the current player of g can submit: every hand index and the
\* first one out of range, and every card card_name_to_card knows
AllMoves(g) ==
    PlayCardMoves(g) \cup BuyCardMoves(CardNames) \cup DiscardCardMoves(CardNames)
    \cup {EndActionsMove, EndTreasuresMove, EndTurnMove}

\* the supply map that holds the piles of c's card type
PileMap(sup, c) ==
    CASE card_type(c) = "Treasure" -> sup.treasures
      [] card_type(c) = "Victory" -> sup.victories
      [] card_type(c) = "Action" -> sup.actions
      [] card_type(c) = "Curse" -> sup.curses

PileExists(sup, c) == c \in DOMAIN PileMap(sup, c)

SupplyMaps == {"treasures", "actions", "victories", "curses"}

\* every pile of sup lies between 0 and the same pile of upper
PilesWithin(sup, upper) ==
    \A f \in SupplyMaps :
        /\ DOMAIN sup[f] = DOMAIN upper[f]
        /\ \A c \in DOMAIN sup[f] : 0 <= sup[f][c] /\ sup[f][c] <= upper[f][c]

\* the number of supply piles at zero, over the four maps
ZeroPiles(sup) ==
    Cardinality({ pc \in UNION { { <<f, c>> : c \in DOMAIN sup[f] } : f \in SupplyMaps } :
                  sup[pc[1]][pc[2]] = 0 })

\* all the cards of player p, over the five zones
TotalCards(p) == Len(p.hand) + Len(p.deck) + Len(p.discard) + Len(p.played) + Len(p.trashed)

\* the five zones of player p
Zones(p) == <<p.hand, p.deck, p.discard, p.played, p.trashed>>

----------------------------------------------------------------------------
(* C1: atomic moves *)

\* C1: every accept_move call that returns an error leaves the whole game state
\* (players, supply, current player, phase, winner) unchanged.
\* The code violates it: a BuyCard pays before Supply::take_card can fail.
C1_RejectedMoveChangesNothing ==
    [][last'.res # "Ok" => UNCHANGED gameVars]_vars

----------------------------------------------------------------------------
(* C2: moves of a player who is not the current player *)

\* C2: any move submitted with a player_index different from the current player
\* index returns InvalidMove, in every phase, and changes nothing in the game.
C2_WrongPlayerRejected ==
    \A pi \in PlayerIndices \ {curr_player_index} :
        \A m \in AllMoves(Game) :
            accept_move(Game, pi, m) = { Out(Game, "InvalidMove", FALSE) }

\* a player who is not the current one has submitted EndTurn and got InvalidMove
C2_Witness ==
    /\ last.player_index # curr_player_index
    /\ last.move.kind = "EndTurn"
    /\ last.res = "InvalidMove"
    /\ ~last.ended

----------------------------------------------------------------------------
(* C3: moves that do not match the move table *)

\* the hand index i of the current player holds a card that the phase cannot play
WrongCategory(g, i) ==
    LET t == card_type(current_player(g).hand[i + 1])
    IN \/ g.game_phase = "ActionPhase" /\ t \in {"Treasure", "Victory", "Curse"}
       \/ g.game_phase = "TreasurePhase" /\ t \in {"Action", "Victory", "Curse"}

\* C3: a move by the current player that does not match the move table for the
\* current phase returns InvalidMove: BuyCard in ActionPhase or TreasurePhase,
\* PlayCard in BuyPhase, EndActions outside ActionPhase, EndTreasures outside
\* TreasurePhase, DiscardCard in every phase, and PlayCard of a card of the wrong
\* category for the phase.
C3_OffTableMoveRejected ==
    LET Rejected(m) ==
            /\ accept_move(Game, curr_player_index, m) # {}
            /\ \A o \in accept_move(Game, curr_player_index, m) : o.res = "InvalidMove"
    IN /\ game_phase \in {"ActionPhase", "TreasurePhase"} =>
            \A m \in BuyCardMoves(CardNames) : Rejected(m)
       /\ game_phase = "BuyPhase" => \A m \in PlayCardMoves(Game) : Rejected(m)
       /\ game_phase # "ActionPhase" => Rejected(EndActionsMove)
       /\ game_phase # "TreasurePhase" => Rejected(EndTreasuresMove)
       /\ \A m \in DiscardCardMoves(CardNames) : Rejected(m)
       /\ \A i \in 0..(Len(players[curr_player_index].hand) - 1) :
            WrongCategory(Game, i) => Rejected([kind |-> "PlayCard", card_index |-> i])

\* the current player, in TreasurePhase, has played an action card of the hand
\* and got InvalidMove
C3_Witness ==
    /\ last.player_index = curr_player_index
    /\ last.move.kind = "PlayCard"
    /\ last.res = "InvalidMove"
    /\ game_phase = "TreasurePhase"
    /\ last.move.card_index < Len(players[curr_player_index].hand)
    /\ card_type(players[curr_player_index].hand[last.move.card_index + 1]) = "Action"

----------------------------------------------------------------------------
(* C4: no card is lost or duplicated *)

\* C4: for every player the number of cards in hand + deck + discard + played +
\* trashed equals the starting cards plus the number of cards the player has
\* acquired, after any sequence of accepted and rejected moves.
C4_CardsConserved ==
    \A i \in PlayerIndices :
        TotalCards(players[i]) = StartCoppers + StartEstates + gained[i]

\* a turn has just ended with a reshuffle beneath a deck that was not empty, for a
\* player who has bought two cards
C4_Witness ==
    /\ last.ended
    /\ \E i \in PlayerIndices : gained[i] = 2 /\ Len(players[i].deck) > 0

----------------------------------------------------------------------------
(* C5: the supply piles *)

\* C5: every supply pile count is between 0 and its initial size; no BuyCard and
\* no Witch gain reduces a pile below zero, and no operation increases a pile.
\* (Witch is not in the supply of initialise_game, so its effect is applied here
\* to every reachable game.)
C5_PilesBounded ==
    /\ [](/\ PilesWithin(supply, InitialSupply)
          /\ \A o \in handle_action(Game, "Witch") : PilesWithin(o.g.supply, supply))
    /\ [][PilesWithin(supply', supply)]_vars

\* the Curse pile is at zero and a BuyCard of a Curse has just been refused
C5_Witness ==
    /\ supply.curses["Curse"] = 0
    /\ last.move = [kind |-> "BuyCard", card |-> "Curse"]
    /\ last.res = "CardSupplyDepleted"

----------------------------------------------------------------------------
(* C6: buying from a pile at zero *)

\* C6 as stated: a BuyCard by the current player in BuyPhase for a card whose
\* supply pile exists and is at zero returns SupplyDepleted; the pile stays at
\* zero and the buyer gains no card.
C6_ZeroPileBuyIsDepleted ==
    [][(/\ game_phase = "BuyPhase"
        /\ last'.move.kind = "BuyCard"
        /\ last'.player_index = curr_player_index
        /\ PileExists(supply, last'.move.card)
        /\ PileMap(supply, last'.move.card)[last'.move.card] = 0)
       => (/\ last'.res = "CardSupplyDepleted"
           /\ supply' = supply
           /\ Zones(players'[curr_player_index]) = Zones(players[curr_player_index]))]_vars

\* C6 as amended: a BuyCard by the current player in BuyPhase, with coins >=
\* cost(card), for a card whose supply pile exists and is at zero returns
\* SupplyDepleted; the pile stays at zero and the buyer gains no card.
C6_AffordableZeroPileBuyIsDepleted ==
    [][(/\ game_phase = "BuyPhase"
        /\ last'.move.kind = "BuyCard"
        /\ last'.player_index = curr_player_index
        /\ PileExists(supply, last'.move.card)
        /\ PileMap(supply, last'.move.card)[last'.move.card] = 0
        /\ players[curr_player_index].coins >= cost(last'.move.card))
       => (/\ last'.res = "CardSupplyDepleted"
           /\ supply' = supply
           /\ Zones(players'[curr_player_index]) = Zones(players[curr_player_index]))]_vars

\* the Festival pile is at zero and a BuyCard of a Festival by a player who could
\* pay for it has just been refused
C6_Witness ==
    /\ supply.actions["Festival"] = 0
    /\ last.move = [kind |-> "BuyCard", card |-> "Festival"]
    /\ last.player_index = curr_player_index
    /\ last.res = "CardSupplyDepleted"

----------------------------------------------------------------------------
(* C7: a successful BuyCard *)

\* the name of the supply map that holds the piles of c's card type
PileField(c) ==
    CASE card_type(c) = "Treasure" -> "treasures"
      [] card_type(c) = "Victory" -> "victories"
      [] card_type(c) = "Action" -> "actions"
      [] card_type(c) = "Curse" -> "curses"

\* the cards named c that player p holds, over the five zones
Holds(p, c) == CountIn(p.hand \o p.deck \o p.discard \o p.played \o p.trashed, {c})

\* C7: a BuyCard by the current player in BuyPhase with coins >= cost(card) and a
\* non-empty pile succeeds: coins decrease by the cost, that pile decreases by
\* exactly one and no other pile changes, exactly one card of that name is added
\* to the buyer's discard, and buys decrease by one; the turn ends in the same
\* move iff buys reached zero, otherwise the current player and BuyPhase are
\* unchanged.  When the turn ends in the same move the buyer's end of turn
\* follows: the bought card is among the buyer's cards and the next player is
\* the current one.
C7_BuyEffects ==
    [][LET c == last'.move.card
           cur == curr_player_index
           p == players[cur]
           bought == [p EXCEPT !.coins = @ - cost(c), !.buys = @ - 1,
                               !.discard = Append(@, c)]
           sup == [supply EXCEPT ![PileField(c)][c] = @ - 1]
       IN (/\ game_phase = "BuyPhase"
           /\ last'.move.kind = "BuyCard"
           /\ last'.player_index = cur
           /\ PileExists(supply, c)
           /\ PileMap(supply, c)[c] > 0
           /\ p.coins >= cost(c))
          => /\ last'.res = "Ok"
             /\ last'.ended <=> bought.buys = 0
             /\ supply' = sup
             /\ \A i \in PlayerIndices \ {cur} : players'[i] = players[i]
             /\ IF bought.buys = 0
                THEN /\ curr_player_index' = (cur + 1) % NumPlayers
                     /\ Holds(players'[cur], c) = Holds(p, c) + 1
                     /\ TotalCards(players'[cur]) = TotalCards(p) + 1
                ELSE /\ players'[cur] = bought
                     /\ curr_player_index' = cur
                     /\ game_phase' = "BuyPhase"
                     /\ winner' = winner]_vars

\* a BuyCard has just succeeded without ending the turn: the buyer has buys left
C7_Witness ==
    /\ last.move.kind = "BuyCard"
    /\ last.res = "Ok"
    /\ ~last.ended
    /\ last.player_index = curr_player_index
    /\ game_phase = "BuyPhase"
    /\ players[curr_player_index].buys >= 1

----------------------------------------------------------------------------
(* C8: the start of a turn *)

\* C8: after every turn end (explicit EndTurn or automatic when buys reach
\* zero), the new current player's actions, buys and coins are exactly 1, 1 and 0
\* and their hand holds exactly 5 cards (fewer only if their deck and discard
\* together held fewer than 5: then they hold all their cards in hand).
C8_TurnStartsFresh ==
    last.ended =>
        LET n == players[curr_player_index]
        IN /\ n.actions = 1
           /\ n.buys = 1
           /\ n.coins = 0
           /\ \/ Len(n.hand) = HandSize
              \/ Len(n.hand) < HandSize /\ n.deck = <<>> /\ n.discard = <<>>

\* a BuyCard has just ended a turn automatically, and the new current player, who
\* has bought a card in an earlier turn, starts with 1, 1, 0 and 5 cards in hand
C8_Witness ==
    /\ last.ended
    /\ last.move.kind = "BuyCard"
    /\ gained[curr_player_index] >= 1
    /\ players[curr_player_index].actions = 1
    /\ players[curr_player_index].buys = 1
    /\ players[curr_player_index].coins = 0
    /\ Len(players[curr_player_index].hand) = HandSize

----------------------------------------------------------------------------
(* C9: draw with a reshuffle *)

\* C9: draw(n) with deck size < n <= deck size + discard size leaves the hand
\* larger by exactly n cards and the discard empty.
C9_DrawReshuffles ==
    (/\ last.move.kind = "Draw"
     /\ last.move.deck < last.move.n
     /\ last.move.n <= last.move.deck + last.move.discard)
    => /\ Len(players[0].hand) = last.move.hand + last.move.n
       /\ players[0].discard = <<>>

\* three cards have been drawn from a deck of one card and a discard of three
C9_Witness ==
    /\ last.move.kind = "Draw"
    /\ last.move.n = 3 /\ last.move.deck = 1 /\ last.move.discard = 3
    /\ Len(players[0].hand) = last.move.hand + 3
    /\ Len(players[0].deck) = 1

----------------------------------------------------------------------------
(* C10: when the winner is set *)

----------------------------------------------------------------------------
(* C11: the recorded winner *)

\* the victory points of one card named c
PointsOf(c) == CASE c = "Estate" -> 1 [] c = "Duchy" -> 3 [] c = "Province" -> 6 [] OTHER -> 0

RECURSIVE SumPoints(_)
SumPoints(s) == IF s = <<>> THEN 0 ELSE PointsOf(Head(s)) + SumPoints(Tail(s))

\* the victory-point total of player p over all five zones
PointsAllZones(p) == SumPoints(p.hand \o p.deck \o p.discard \o p.played \o p.trashed)

\* C11: whenever the winner is recorded (at a turn end that finds the game over),
\* it is the index of a player whose victory-point total over all of that
\* player's zones is the maximum over all players at that moment.
C11_WinnerHasMostPoints ==
    [][(last'.ended /\ winner' # None)
       => \E i \in PlayerIndices :
            /\ winner' = Some(i)
            /\ \A j \in PlayerIndices :
                 PointsAllZones(players'[j]) <= PointsAllZones(players'[i])]_vars

\* a turn end has just recorded a winner who holds more points than another player
C11_Witness ==
    /\ last.ended
    /\ winner # None
    /\ \E i, j \in PlayerIndices :
         /\ winner = Some(i)
         /\ PointsAllZones(players[j]) < PointsAllZones(players[i])

----------------------------------------------------------------------------
(* C12, C13: after the winner is recorded *)

\* C12: the winner field changes exactly once, from absent to a player index:
\* once the winner is set, no later move changes it to a different index or
\* back to absent.
\* The code violates it: Game::end_turn records the winner again at every later
\* turn end, from the points the players hold then.
C12_WinnerNeverChanges ==
    [][winner # None => winner' = winner]_vars

\* C13: once the winner is set every later accept_move call is rejected and
\* changes no player's zones or counters, no supply pile, the current player
\* index or the phase.
\* The code violates it: accept_move never reads the winner.
C13_TerminalAfterWinner ==
    [][winner # None => (last'.res # "Ok" /\ UNCHANGED gameVars)]_vars

----------------------------------------------------------------------------
(* C14: EndTurn and the current player index *)

\* C14: EndTurn submitted by the current player succeeds in every phase,
\* whatever the hand and counters, and sets the current player index to
\* (previous index + 1) mod number of players, as every turn end does; the
\* current player index changes on no move that does not end a turn.
C14_EndTurnAdvancesPlayer ==
    [][/\ (last'.move.kind = "EndTurn" /\ last'.player_index = curr_player_index)
          => (last'.res = "Ok" /\ last'.ended)
       /\ last'.ended => curr_player_index' = (curr_player_index + 1) % NumPlayers
       /\ ~last'.ended => curr_player_index' = curr_player_index]_vars

\* an EndTurn of the second turn or a later one has just been accepted, and the
\* player after the one who submitted it is the current player
C14_Witness ==
    /\ last.move.kind = "EndTurn"
    /\ last.res = "Ok"
    /\ last.ended
    /\ curr_player_index = (last.player_index + 1) % NumPlayers
    /\ turns >= 2

----------------------------------------------------------------------------
(* C15: ties *)

\* the players who hold the maximum victory-point total in ps
Leaders(ps) ==
    { i \in PlayerIndices :
        \A j \in PlayerIndices : PointsAllZones(ps[j]) <= PointsAllZones(ps[i]) }

\* C15 as stated: when two or more players share the maximum victory-point total
\* at a game-ending turn transition, the recorded winner is the tied player with
\* the lowest index.
C15_TieGoesToFirst ==
    [][(last'.ended /\ winner' # None /\ Cardinality(Leaders(players')) >= 2)
       => \A i \in Leaders(players') : winner'[1] <= i]_vars

\* C15 as amended: when two or more players share the maximum victory-point
\* total at a game-ending turn transition, the recorded winner is the last of
\* the tied players in player-list order, i.e. the tied player with the
\* highest index.
C15_TieGoesToLast ==
    [][(last'.ended /\ winner' # None /\ Cardinality(Leaders(players')) >= 2)
       => (winner'[1] \in Leaders(players') /\ \A i \in Leaders(players') : i <= winner'[1])]_vars

\* a turn end has just recorded a winner while two players share the maximum
C15_Witness ==
    /\ last.ended
    /\ winner = Some(NumPlayers - 1)
    /\ Cardinality(Leaders(players)) >= 2

----------------------------------------------------------------------------
(* C16: the cards without an effect *)

----------------------------------------------------------------------------
(* C17: a buyer short of coins *)

\* C17: a BuyCard by the current player in BuyPhase with coins < cost(card)
\* returns NotEnoughMoney carrying required = cost and available = the player's
\* coins, whatever the state of the pile (present, at zero or absent), and
\* changes nothing in the game.
C17_NotEnoughMoney ==
    game_phase = "BuyPhase" =>
        \A c \in CardNames :
            players[curr_player_index].coins < cost(c) =>
                accept_move(Game, curr_player_index, [kind |-> "BuyCard", card |-> c])
                = { [g |-> Game, res |-> "NotEnoughMoney", ended |-> FALSE,
                     detail |-> [required |-> cost(c),
                                 available |-> players[curr_player_index].coins]] }

\* a BuyCard of a Festival, whose pile is at zero, has just been refused with
\* NotEnoughMoney and the buyer still holds their coins, buys and cards
C17_Witness ==
    /\ last.move = [kind |-> "BuyCard", card |-> "Festival"]
    /\ last.player_index = curr_player_index
    /\ last.res = "NotEnoughMoney"
    /\ supply.actions["Festival"] = 0
    /\ game_phase = "BuyPhase"
    /\ players[curr_player_index].coins \in 1..4
    /\ players[curr_player_index].buys = 1

----------------------------------------------------------------------------
(* C18: what draw moves *)

\* the vector s from its last element to its first
Reversed(s) == [k \in 1..Len(s) |-> s[Len(s) + 1 - k]]

\* the cards named c in the vector s
Count(s, c) == Cardinality({k \in 1..Len(s) : s[k] = c})

\* C18: draw(n) moves exactly min(n, |deck| + |discard|) cards to the end of the
\* hand and always returns; when |deck| < n the discard is merged beneath the
\* deck, so the cards of the deck are drawn first, top first, then cards that
\* came from the discard, the discard is left empty and no card is lost; when
\* |deck| >= n the discard is unchanged and only the top n deck cards move.
C18_DrawMoves ==
    last.move.kind = "Draw" =>
        LET b == last.move.before
            q == players[0]
            n == last.move.n
            d == Len(b.deck)
            k == Min(n, d + Len(b.discard))
            drawn == SubSeq(q.hand, Len(b.hand) + 1, Len(q.hand))
        IN /\ draw(b, n) # {}
           /\ Len(q.hand) = Len(b.hand) + k
           /\ SubSeq(q.hand, 1, Len(b.hand)) = b.hand
           /\ IF d >= n
              THEN /\ q.discard = b.discard
                   /\ drawn = Reversed(SubSeq(b.deck, d - n + 1, d))
                   /\ q.deck = SubSeq(b.deck, 1, d - n)
              ELSE /\ q.discard = <<>>
                   /\ SubSeq(drawn, 1, d) = Reversed(b.deck)
                   /\ \A c \in {"Copper", "Estate"} :
                        Count(SubSeq(drawn, d + 1, k) \o q.deck, c) = Count(b.discard, c)

\* three cards have been drawn from a deck of one Estate above a discard of
\* Coppers: the Estate came first
C18_Witness ==
    /\ last.move.kind = "Draw"
    /\ last.move.n = 3
    /\ last.move.before.deck = <<"Estate">>
    /\ last.move.before.discard = <<"Copper", "Copper", "Copper">>
    /\ last.move.before.hand = <<"Copper">>
    /\ players[0].hand = <<"Copper", "Estate", "Copper", "Copper">>

----------------------------------------------------------------------------
(* C19: the order of the phases *)

\* the place of a phase in the order of a turn
PhaseRank(phase) ==
    CASE phase = "ActionPhase" -> 1 [] phase = "TreasurePhase" -> 2 [] phase = "BuyPhase" -> 3

\* C19: within one turn the phase only moves forward in the order ActionPhase,
\* TreasurePhase, BuyPhase; EndActions of the current player in ActionPhase sets
\* their actions to 0 and moves to TreasurePhase, and EndTreasures of the
\* current player in TreasurePhase moves to BuyPhase.
C19_PhasesMoveForward ==
    [][/\ ~last'.ended => PhaseRank(game_phase') >= PhaseRank(game_phase)
       /\ (/\ last'.move.kind = "EndActions"
           /\ last'.player_index = curr_player_index
           /\ game_phase = "ActionPhase")
          => (/\ last'.res = "Ok"
              /\ ~last'.ended
              /\ game_phase' = "TreasurePhase"
              /\ players'[curr_player_index] = [players[curr_player_index] EXCEPT !.actions = 0])
       /\ (/\ last'.move.kind = "EndTreasures"
           /\ last'.player_index = curr_player_index
           /\ game_phase = "TreasurePhase")
          => (/\ last'.res = "Ok"
              /\ ~last'.ended
              /\ game_phase' = "BuyPhase"
              /\ players' = players)]_vars

\* EndActions has just been accepted from a player who keeps an action card in
\* hand: the phase is TreasurePhase and their actions are 0
C19_Witness ==
    /\ last.move.kind = "EndActions"
    /\ last.res = "Ok"
    /\ last.player_index = curr_player_index
    /\ game_phase = "TreasurePhase"
    /\ players[curr_player_index].actions = 0
    /\ has_action_cards_in_hand(players[curr_player_index])

----------------------------------------------------------------------------
(* C20: the phase a turn starts in *)

\* the phase the claim gives a turn that starts with this hand
StartingPhase(hand) ==
    IF \E k \in 1..Len(hand) : hand[k] \in ActionNames THEN "ActionPhase"
    ELSE IF \E k \in 1..Len(hand) : hand[k] \in TreasureNames THEN "TreasurePhase"
    ELSE "BuyPhase"

\* the hands of at most two cards get_starting_game_phase is applied to
SmallHands == Vectors({"Copper", "Estate", "Curse", "Festival"}, 2)

\* C20: at the start of every turn, including the first turn of a new game, the
\* phase is ActionPhase if the current player's hand contains an action card,
\* otherwise TreasurePhase if it contains a treasure card, otherwise BuyPhase.
\* The second conjunct applies get_starting_game_phase, which both
\* initialise_game and end_turn call, to every small hand: no hand of a game
\* with these piles is without a treasure.
C20_TurnStartsInStartingPhase ==
    /\ (last.ended \/ last.move.kind = "None")
       => game_phase = StartingPhase(players[curr_player_index].hand)
    /\ \A h \in SmallHands :
         get_starting_game_phase([EmptyPlayer(0) EXCEPT !.hand = h]) = StartingPhase(h)

\* a turn has just started in ActionPhase, with a Festival in the hand
C20_Witness ==
    /\ last.ended
    /\ game_phase = "ActionPhase"
    /\ \E k \in 1..Len(players[curr_player_index].hand) :
         players[curr_player_index].hand[k] = "Festival"

----------------------------------------------------------------------------
(* C21: what playing an implemented action card does *)

\* the fixed effects of the implemented action cards: cards drawn, actions and
\* buys added
ImplementedActions == {"Moat", "Village", "Smithy", "Festival", "Laboratory", "Market"}
PlusCards(c) ==
    CASE c = "Moat" -> 2 [] c = "Village" -> 1 [] c = "Smithy" -> 3
      [] c = "Festival" -> 0 [] c = "Laboratory" -> 2 [] c = "Market" -> 1
PlusActions(c) ==
    CASE c = "Moat" -> 0 [] c = "Village" -> 2 [] c = "Smithy" -> 0
      [] c = "Festival" -> 2 [] c = "Laboratory" -> 1 [] c = "Market" -> 1
PlusBuys(c) ==
    CASE c = "Moat" -> 0 [] c = "Village" -> 0 [] c = "Smithy" -> 0
      [] c = "Festival" -> 1 [] c = "Laboratory" -> 0 [] c = "Market" -> 1

\* C21: when a PlayCard of an implemented action card is accepted in ActionPhase,
\* exactly that card goes from the hand to played, actions goes down by one and
\* then up by the card's actions, buys goes up by the card's buys, coins stays,
\* the card's number of cards (or every card left, if deck and discard hold
\* fewer) comes from deck and discard to the end of the hand, nothing else
\* changes, and the phase afterwards is TreasurePhase if actions is 0 or the hand
\* holds no action card and ActionPhase otherwise
C21_ActionCardEffect ==
    [][ ( /\ game_phase = "ActionPhase"
          /\ last'.move.kind = "PlayCard"
          /\ last'.res = "Ok" )
        => LET cur == curr_player_index
               p == players[cur]
               q == players'[cur]
               i == last'.move.card_index
               c == p.hand[i + 1]
               left == Len(p.deck) + Len(p.discard)
               n == Min(PlusCards(c), left)
           IN /\ last'.player_index = cur
              /\ i < Len(p.hand)
              /\ c \in ImplementedActions
              /\ q.played = Append(p.played, c)
              /\ q.actions = p.actions - 1 + PlusActions(c)
              /\ q.buys = p.buys + PlusBuys(c)
              /\ q.coins = p.coins
              /\ Len(q.hand) = Len(p.hand) - 1 + n
              /\ SubSeq(q.hand, 1, Len(p.hand) - 1) = RemoveAt(p.hand, i)
              /\ Len(q.deck) + Len(q.discard) = left - n
              /\ \A d \in CardNames :
                    Count(q.hand \o q.deck \o q.discard, d) + (IF d = c THEN 1 ELSE 0)
                    = Count(p.hand \o p.deck \o p.discard, d)
              /\ q.trashed = p.trashed
              /\ \A j \in PlayerIndices \ {cur} : players'[j] = players[j]
              /\ supply' = supply /\ curr_player_index' = cur /\ winner' = winner
              /\ game_phase' = IF q.actions = 0 \/ CountIn(q.hand, ActionNames) = 0
                               THEN "TreasurePhase" ELSE "ActionPhase" ]_vars

\* a Laboratory and then a Smithy have been played: two and three cards were
\* drawn in full, and the Smithy used the last action
C21_Witness ==
    /\ last.move.kind = "PlayCard" /\ last.res = "Ok"
    /\ players[curr_player_index].played = <<"Laboratory", "Smithy">>
    /\ Len(players[curr_player_index].hand) = HandSize - 2 + 5
    /\ players[curr_player_index].actions = 0
    /\ game_phase = "TreasurePhase"

----------------------------------------------------------------------------
(* C22: what playing a treasure card does *)

\* the coins the claim gives for each treasure
CoinsOf(c) == CASE c = "Copper" -> 1 [] c = "Silver" -> 2 [] c = "Gold" -> 3

\* C22: a PlayCard the current player submits in TreasurePhase for a hand index
\* that holds a treasure is accepted; it moves exactly that card from the hand to
\* played, adds the card's value to coins and leaves actions, buys and everything
\* else alone; the phase afterwards is BuyPhase if the hand holds no treasure any
\* more and TreasurePhase otherwise
C22_TreasureCardEffect ==
    [][ ( /\ game_phase = "TreasurePhase"
          /\ last'.move.kind = "PlayCard"
          /\ last'.player_index = curr_player_index
          /\ last'.move.card_index < Len(players[curr_player_index].hand)
          /\ players[curr_player_index].hand[last'.move.card_index + 1] \in TreasureNames )
        => LET cur == curr_player_index
               p == players[cur]
               i == last'.move.card_index
               c == p.hand[i + 1]
           IN /\ last'.res = "Ok"
              /\ players' = [players EXCEPT ![cur] =
                               [p EXCEPT !.hand = RemoveAt(p.hand, i),
                                         !.played = Append(p.played, c),
                                         !.coins = p.coins + CoinsOf(c)]]
              /\ supply' = supply /\ curr_player_index' = cur /\ winner' = winner
              /\ game_phase' \in {"TreasurePhase", "BuyPhase"}
              /\ game_phase' = "BuyPhase"
                    <=> CountIn(players'[cur].hand, TreasureNames) = 0 ]_vars

\* the Gold and then the Silver have been played from a hand that still holds
\* Coppers: five coins, and the phase is still TreasurePhase
C22_Witness ==
    /\ last.move.kind = "PlayCard" /\ last.res = "Ok"
    /\ players[curr_player_index].played = <<"Gold", "Silver">>
    /\ players[curr_player_index].coins = 5
    /\ CountIn(players[curr_player_index].hand, TreasureNames) = HandSize - 2
    /\ game_phase = "TreasurePhase"

----------------------------------------------------------------------------
(* C23: the curses a Witch hands out *)

----------------------------------------------------------------------------
(* C24: the zones get_victory_points counts *)

----------------------------------------------------------------------------
(* C25: TreasurePhase and the treasures in hand *)

\* C25: whenever the phase is TreasurePhase, the current player's hand holds a
\* treasure card
C25_TreasurePhaseHasTreasure ==
    game_phase = "TreasurePhase"
    => has_treasure_cards_in_hand(players[curr_player_index])

----------------------------------------------------------------------------
(* C26: the counters the guards of accept_move rely on *)

\* the current player has a buy left, and in ActionPhase an action left and an
\* action card in hand
CountersReady ==
    LET cur == players[curr_player_index]
    IN /\ cur.buys >= 1
       /\ game_phase = "ActionPhase"
             => cur.actions >= 1 /\ has_action_cards_in_hand(cur)

\* C26: in every state of a game the current player's buys is at least 1, and in
\* ActionPhase their actions is at least 1 and their hand holds an action card;
\* no BuyCard finds buys at zero, and a PlayCard the current player submits in
\* ActionPhase for an action card in hand is never rejected
C26_CountersNeverRunOut ==
    /\ [](CountersReady /\ last.res # "Panic")
    /\ [][ ( /\ game_phase = "ActionPhase"
             /\ last'.move.kind = "PlayCard"
             /\ last'.player_index = curr_player_index
             /\ last'.move.card_index < Len(players[curr_player_index].hand)
             /\ players[curr_player_index].hand[last'.move.card_index + 1] \in ActionNames )
           => last'.res = "Ok" ]_vars

\* after a Festival was played in ActionPhase, a first card has been bought and
\* one buy is left
C26_Witness ==
    /\ last.move.kind = "BuyCard" /\ last.res = "Ok" /\ ~last.ended
    /\ players[curr_player_index].buys = 1
    /\ players[curr_player_index].played # <<>>
    /\ players[curr_player_index].played[1] = "Festival"

----------------------------------------------------------------------------
(* C27: the players who are not on turn *)

\* every player who is not on turn has nothing in played and the counters of a new
\* turn, and no player has a trashed card
OthersIdle ==
    \A i \in DOMAIN players :
        /\ players[i].trashed = <<>>
        /\ i # curr_player_index
              => /\ players[i].played = <<>>
                 /\ players[i].actions = 1
                 /\ players[i].buys = 1
                 /\ players[i].coins = 0

\* the action card this step resolves: the card at the index of a PlayCard the
\* current player submits in ActionPhase, or the Action of a handle_action call
ResolvedCard ==
    IF last'.move.kind = "handle_action" THEN last'.move.action
    ELSE IF /\ last'.move.kind = "PlayCard"
            /\ game_phase = "ActionPhase"
            /\ last'.player_index = curr_player_index
            /\ last'.move.card_index < Len(players[curr_player_index].hand)
         THEN players[curr_player_index].hand[last'.move.card_index + 1]
         ELSE "None"

\* q is p after one card went from deck or discard to the end of the hand
DrewOne(p, q) ==
    /\ Len(q.hand) = Len(p.hand) + 1
    /\ SubSeq(q.hand, 1, Len(p.hand)) = p.hand
    /\ Len(q.deck) + Len(q.discard) + 1 = Len(p.deck) + Len(p.discard)
    /\ \A c \in CardNames : Holds(q, c) = Holds(p, c)
    /\ q.played = p.played /\ q.trashed = p.trashed /\ q.index = p.index
    /\ q.actions = p.actions /\ q.buys = p.buys /\ q.coins = p.coins

\* C27: in every state each player who is not on turn has an empty played zone,
\* actions = 1, buys = 1 and coins = 0, and no player has a trashed card; a step
\* leaves every player who is not on turn as they are, unless it resolves a
\* Council Room, which makes them draw one card, or a Witch, which puts one Curse
\* on their discard
C27_OthersUntouched ==
    /\ []OthersIdle
    /\ [][ \A i \in DOMAIN players \ {curr_player_index} :
              \/ players'[i] = players[i]
              \/ ResolvedCard = "Council Room" /\ DrewOne(players[i], players'[i])
              \/ /\ ResolvedCard = "Witch"
                 /\ players'[i] = [players[i] EXCEPT !.discard = Append(@, "Curse")] ]_vars

\* a turn has ended with the purchase of a Festival, paid with five Coppers played:
\* the buyer, no longer on turn, has nothing in played and the counters of a new turn
C27_Witness ==
    /\ last.move.kind = "BuyCard" /\ last.move.card = "Festival"
    /\ last.res = "Ok" /\ last.ended
    /\ last.player_index # curr_player_index
    /\ Holds(players[last.player_index], "Festival") = 1
    /\ players[last.player_index].played = <<>>
    /\ players[last.player_index].coins = 0

============================================================================
